---- MODULE Spec2Model ----
(***************************************************************************)
(* Settlement pipeline of the auction marketplace: bid placement and       *)
(* retraction (bidController.js), auction close and escrow release/refund  *)
(* (auctionController.js, which also holds escrowController.js), delivery  *)
(* confirmation (deliveryConfirmationController.js) and disputes           *)
(* (disputeController.js, in unnamed/part_000).                            *)
(*                                                                         *)
(* Request handlers are async functions: each handler is a sequence of     *)
(* steps, one per database round trip (await), and the steps of different  *)
(* handlers interleave.  A handler slot p is at pc[p] with its local       *)
(* variables in loc[p].  Amounts are in tenths of a token, so that 10%,    *)
(* 50% and the 0.5 token minimum penalty are integers; times are seconds.  *)
(* The module bindings the handlers use without importing them (mongoose,  *)
(* User, DeliveryConfirmation) are taken as resolved.                      *)
(***************************************************************************)
EXTENDS Integers, Sequences, FiniteSets, TLC

VARIABLES
  now,              \* wall clock (Date.now(), new Date())
  balance,          \* User.balance
  escrowedBalance,  \* User.escrowedBalance
  auction,          \* the Auction document
  bids,             \* Bid documents, in creation order
  escrows,          \* Escrow documents, in creation order
  confs,            \* DeliveryConfirmation documents, in creation order
  disputes,         \* Dispute documents, in creation order
  ledger,           \* TokenTransaction documents, in creation order
  pc,               \* position of each request handler
  loc,              \* local variables of each request handler
  outcome,          \* the last response sent: ok (2xx), rejected (4xx), error (5xx,
                    \* throw), or its message
  accepted,         \* history: amounts of the bids finalizeBidPlacement committed
  paid,             \* history: tokens credited out of each escrow
  retracts,         \* history: retractions carried out
  closeRuns         \* history: closeAuction calls that passed the validation

vars == <<now, balance, escrowedBalance, auction, bids, escrows, confs,
          disputes, ledger, pc, loc, outcome, accepted, paid, retracts,
          closeRuns>>

hist == <<accepted, paid, retracts, closeRuns>>

db == <<balance, escrowedBalance, auction, bids, escrows, confs, disputes, ledger>>

----------------------------------------------------------------------------
\* Bounds of the model
MaxBids == 2
MaxEscrows == 2
MaxRetracts == 2
MaxCloses == 2
MaxLedger == 7
MaxDisputes == 2
MaxEvidence == 1
MaxVendorBalance == 3000
MaxTime == 60

\* Program constants
ANTI_SNIPING_EXTENSION == 30
MIN_BID_INCREASE == 5
TOO_FAST_BIDS == 5
MIN_PENALTY == 5
FEE_DIVISOR == 10
DISPUTE_WINDOW_DAYS == 7

TickStep == ANTI_SNIPING_EXTENSION

Procs == {1, 2}
Bidders == {"b1", "b2"}
Vendor == "v"
Users == Bidders \cup {Vendor}
NoUser == "none"

StartingPrice == 10 * 100
BidAmounts == {10 * 106, 10 * 112}
PresetAmounts == {10 * 100}
InitBalance == [u \in Users |-> IF u = "b1" THEN 10 * 200 ELSE IF u = "b2" THEN 10 * 120 ELSE 0]
InitEndTime == TickStep

Max(a, b) == IF a >= b THEN a ELSE b

Blank == [user |-> NoUser, amount |-> 0, bid |-> 0, rbal |-> 0, resc |-> 0,
          newEnd |-> 0, stale |-> FALSE, rprice |-> 0, rhb |-> NoUser,
          esc |-> 0, act |-> "none"]

----------------------------------------------------------------------------
\* The state after createAuction, for a physical or a digital item
InitWith(digital) ==
  /\ now = 0
  /\ balance = InitBalance
  /\ escrowedBalance = [u \in Users |-> 0]
  /\ auction = [isActive |-> TRUE, startingPrice |-> StartingPrice,
                currentPrice |-> StartingPrice, highestBidder |-> NoUser,
                bidCount |-> 0, startTime |-> now, endTime |-> InitEndTime,
                winningBidAmount |-> 0,
                isDigital |-> digital, ended |-> FALSE]
  /\ bids = <<>>
  /\ escrows = <<>>
  /\ confs = <<>>
  /\ disputes = <<>>
  /\ ledger = <<>>
  /\ pc = [p \in Procs |-> "idle"]
  /\ loc = [p \in Procs |-> Blank]
  /\ outcome = "none"
  /\ accepted = <<>>
  /\ paid = <<>>
  /\ retracts = 0
  /\ closeRuns = 0

Init == InitWith(FALSE)

InitAny == \E digital \in BOOLEAN : InitWith(digital)

\* The handler p answers r and ends.
Reply(p, r) ==
  /\ pc' = [pc EXCEPT ![p] = "idle"]
  /\ loc' = [loc EXCEPT ![p] = Blank]
  /\ outcome' = r

Goto(p, l) == pc' = [pc EXCEPT ![p] = l]

\* A committed write of the Auction document makes every open transaction
\* that read it before (other than the writer's) fail with a write conflict.
InTx(q) == pc[q] \in {"pb_finW", "ca_win", "ca_esc", "ca_refund", "ca_conf", "ca_commit"}

StaleOthers(p, l) ==
  [q \in Procs |-> IF q # p /\ InTx(q) THEN [l[q] EXCEPT !.stale = TRUE] ELSE l[q]]

\* Time passes.
Tick ==
  /\ now + TickStep <= MaxTime
  /\ now' = now + TickStep
  /\ UNCHANGED <<db, pc, loc, outcome, hist>>

----------------------------------------------------------------------------
\* bidController.js

LiveBids == {i \in DOMAIN bids : bids[i].live}

\* Bid.findOne({bidder, auction}).sort({createdAt: -1}): is the user's latest
\* bid younger than TOO_FAST_BIDS
TooFast(u) ==
  \E i \in LiveBids : bids[i].bidder = u /\ now - bids[i].createdAt < TOO_FAST_BIDS

\* amount < currentPrice * (1 + MIN_BID_INCREASE)
BelowMinValidBid(amount, currentPrice) ==
  amount * 100 < currentPrice * (100 + MIN_BID_INCREASE)

\* A handler starts in the first free slot.
Free(p) == pc[p] = "idle" /\ \A q \in Procs : q < p => pc[q] # "idle"

\* Bids that exist or are about to be created
BidsInFlight == Len(bids) + Cardinality({q \in Procs : pc[q] = "pb_create"})

\* placeBid, lines 33-61: read auction, user and the user's last bid, validate
placeBid_validate(p, u, a) ==
  /\ Free(p)
  /\ BidsInFlight < MaxBids
  /\ UNCHANGED <<now, db, hist>>
  /\ IF ~auction.isActive \/ now > auction.endTime
       THEN Reply(p, "rejected")
       ELSE IF BelowMinValidBid(a, auction.currentPrice)
         THEN Reply(p, "rejected")
         ELSE IF balance[u] < a
           THEN Reply(p, "rejected")
           ELSE IF TooFast(u)
             THEN Reply(p, "rejected")
             ELSE /\ Goto(p, "pb_create")
                  /\ loc' = [loc EXCEPT ![p] = [Blank EXCEPT !.user = u, !.amount = a,
                                                  !.rprice = auction.currentPrice]]
                  /\ UNCHANGED outcome

\* placeBid, lines 63-70: Bid.create in status pending
\* (SUSPICIOUS_JUMP_MULTIPLIER is undefined, so flaggedForReview is false);
\* escrowBidTokens, line 18: User.findById
placeBid_create(p) ==
  /\ pc[p] = "pb_create"
  /\ bids' = Append(bids, [bidder |-> loc[p].user, amount |-> loc[p].amount,
                           status |-> "pending", isWinningBid |-> FALSE,
                           isRetracted |-> FALSE, retractionPenalty |-> 0,
                           createdAt |-> now, live |-> TRUE])
  /\ loc' = [loc EXCEPT ![p].bid = Len(bids) + 1,
                        ![p].rbal = balance[loc[p].user],
                        ![p].resc = escrowedBalance[loc[p].user]]
  /\ Goto(p, "pb_escW")
  /\ UNCHANGED <<now, balance, escrowedBalance, auction, escrows, confs,
                 disputes, ledger, outcome, hist>>

\* escrowBidTokens, lines 19-21: user.save() of the values computed from the read
escrowBidTokens_save(p) ==
  /\ pc[p] = "pb_escW"
  /\ escrowedBalance' = [escrowedBalance EXCEPT ![loc[p].user] = loc[p].resc + loc[p].amount]
  /\ balance' = [balance EXCEPT ![loc[p].user] = loc[p].rbal - loc[p].amount]
  /\ Goto(p, "pb_finR")
  /\ UNCHANGED <<now, auction, bids, escrows, confs, disputes, ledger, loc,
                 outcome, hist>>

\* Mutation: the extension is counted from the old end time, not from the clock
ExtendedEndTimeFromEnd(endTime, t) ==
  IF endTime - t < ANTI_SNIPING_EXTENSION THEN endTime + ANTI_SNIPING_EXTENSION ELSE endTime

\* finalizeBidPlacement, lines 99-104: the end time the bid gives the auction
ExtendedEndTime(endTime, t) ==
  IF endTime - t < ANTI_SNIPING_EXTENSION THEN t + ANTI_SNIPING_EXTENSION ELSE endTime

\* finalizeBidPlacement, lines 92-104: open the transaction, read the auction
finalizeBidPlacement_read(p) ==
  /\ pc[p] = "pb_finR"
  /\ loc' = [loc EXCEPT ![p].newEnd = ExtendedEndTime(auction.endTime, now),
                        ![p].stale = FALSE]
  /\ Goto(p, "pb_finW")
  /\ UNCHANGED <<now, db, outcome, hist>>

\* finalizeBidPlacement, lines 106-115: save the auction, activate the bid, commit
finalizeBidPlacement_commit(p) ==
  /\ pc[p] = "pb_finW"
  /\ ~loc[p].stale
  /\ auction' = [auction EXCEPT !.endTime = loc[p].newEnd,
                                !.currentPrice = loc[p].amount,
                                !.highestBidder = loc[p].user,
                                !.bidCount = @ + 1]
  /\ bids' = [bids EXCEPT ![loc[p].bid].status = "active"]
  /\ accepted' = Append(accepted, loc[p].amount)
  /\ pc' = [pc EXCEPT ![p] = "idle"]
  /\ outcome' = "ok"
  /\ loc' = [StaleOthers(p, loc) EXCEPT ![p] = Blank]
  /\ UNCHANGED <<now, balance, escrowedBalance, escrows, confs, disputes, ledger, paid, retracts, closeRuns>>

\* finalizeBidPlacement, lines 125-127, and placeBid, lines 85-87: the
\* transaction aborts on a write conflict; placeBid deletes the pending bid
finalizeBidPlacement_abort(p) ==
  /\ pc[p] = "pb_finW"
  /\ loc[p].stale
  /\ bids' = [bids EXCEPT ![loc[p].bid].live = FALSE]
  /\ Reply(p, "error")
  /\ UNCHANGED <<now, balance, escrowedBalance, auction, escrows, confs,
                 disputes, ledger, hist>>

\* placeBid after its validation
placeBid_rest(p) ==
  \/ placeBid_create(p)
  \/ escrowBidTokens_save(p)
  \/ finalizeBidPlacement_read(p)
  \/ finalizeBidPlacement_commit(p)
  \/ finalizeBidPlacement_abort(p)

placeBid(p) ==
  \/ \E u \in Bidders, a \in BidAmounts : placeBid_validate(p, u, a)
  \/ placeBid_rest(p)

\* placeBid by the one bidder u
placeBidBy(p, u) ==
  \/ \E a \in BidAmounts : placeBid_validate(p, u, a)
  \/ placeBid_rest(p)

\* retractBid, lines 260-263: max(amount * 0.1, 0.5)
Penalty(amount) == Max(amount \div 10, MIN_PENALTY)

\* retractBid, lines 244-268: read bid, auction and user, validate, save the bid
retractBid_validate(p, i, requester) ==
  /\ Free(p)
  /\ retracts < MaxRetracts
  /\ i \in LiveBids
  /\ UNCHANGED <<now, balance, escrowedBalance, auction, escrows, confs,
                 disputes, ledger, accepted, paid, closeRuns>>
  /\ IF bids[i].bidder # requester
       THEN Reply(p, "rejected") /\ UNCHANGED <<bids, retracts>>
       ELSE IF now > auction.endTime
         THEN Reply(p, "rejected") /\ UNCHANGED <<bids, retracts>>
         ELSE /\ bids' = [bids EXCEPT ![i].isRetracted = TRUE,
                                      ![i].retractionPenalty = Penalty(bids[i].amount)]
              /\ retracts' = retracts + 1
              /\ loc' = [loc EXCEPT ![p] = [Blank EXCEPT !.user = requester,
                                              !.bid = i,
                                              !.amount = bids[i].amount,
                                              !.rbal = balance[requester],
                                              !.rprice = auction.currentPrice,
                                              !.rhb = auction.highestBidder]]
              /\ Goto(p, "rb_refund")
              /\ UNCHANGED outcome

\* retractBid, lines 270-275: user.save() of balance + (amount - penalty),
\* computed from the balance read at the start
retractBid_refund(p) ==
  /\ pc[p] = "rb_refund"
  /\ balance' = [balance EXCEPT ![loc[p].user] =
                   loc[p].rbal + (loc[p].amount - Penalty(loc[p].amount))]
  /\ UNCHANGED <<now, escrowedBalance, auction, bids, escrows, confs, disputes,
                 ledger, hist>>
  /\ IF loc[p].rhb = loc[p].user
       THEN Goto(p, "rb_find") /\ UNCHANGED <<loc, outcome>>
       ELSE Reply(p, "ok")

\* Bid.findOne({auction, ...}).sort({amount: -1}) over the bids in S: a bid
\* of the largest amount
Highest(S) == {i \in S : \A j \in S : bids[j].amount <= bids[i].amount}

\* retractBid, lines 276-283: find the highest bid that is not retracted and
\* save the auction; a path whose value did not change is not written
retractBid_reset(p) ==
  /\ pc[p] = "rb_find"
  /\ LET S == {i \in LiveBids : ~bids[i].isRetracted}
     IN \E price \in (IF S = {} THEN {auction.startingPrice}
                               ELSE {bids[i].amount : i \in Highest(S)}) :
        \E hb \in (IF S = {} THEN {NoUser}
                             ELSE {bids[i].bidder : i \in Highest(S) \cap {j \in S : bids[j].amount = price}}) :
          /\ auction' = [auction EXCEPT
                           !.currentPrice = IF price # loc[p].rprice THEN price ELSE @,
                           !.highestBidder = IF hb # loc[p].rhb THEN hb ELSE @]
          /\ pc' = [pc EXCEPT ![p] = "idle"]
          /\ outcome' = "ok"
          /\ loc' = IF price # loc[p].rprice \/ hb # loc[p].rhb
                      THEN [StaleOthers(p, loc) EXCEPT ![p] = Blank]
                      ELSE [loc EXCEPT ![p] = Blank]
  /\ UNCHANGED <<now, balance, escrowedBalance, bids, escrows, confs, disputes,
                 ledger, hist>>

retractBid(p) ==
  \/ \E i \in DOMAIN bids, u \in Bidders : retractBid_validate(p, i, u)
  \/ retractBid_refund(p)
  \/ retractBid_reset(p)

----------------------------------------------------------------------------
\* auctionController.js

\* updateAuction, lines 80-106: before the start the vendor may set any field
\* of the auction from the request body; here the winningBidAmount
updateAuction(w) ==
  /\ \A q \in Procs : pc[q] = "idle"
  /\ ~(now > auction.startTime)
  /\ auction.winningBidAmount # w
  /\ auction' = [auction EXCEPT !.winningBidAmount = w]
  /\ outcome' = "ok"
  /\ UNCHANGED <<now, balance, escrowedBalance, bids, escrows, confs, disputes,
                 ledger, pc, loc, hist>>

\* confirmReceipt, lines 224-245: the highest bidder confirms the receipt and
\* the vendor is credited 90% of the stored winningBidAmount; without a stored
\* amount the sum is not a number and the save of the vendor fails; the flags
\* winnerConfirmed and vendorPaid it sets are read nowhere
confirmReceipt(u) ==
  /\ \A q \in Procs : pc[q] = "idle"
  /\ balance[Vendor] < MaxVendorBalance
  /\ UNCHANGED <<now, escrowedBalance, auction, bids, escrows, confs, disputes,
                 ledger, pc, loc, hist>>
  /\ IF auction.highestBidder = NoUser \/ auction.highestBidder # u
       THEN outcome' = "Not the auction winner" /\ UNCHANGED balance
       ELSE IF auction.winningBidAmount = 0
         THEN outcome' = "Server error" /\ UNCHANGED balance
         ELSE /\ balance' = [balance EXCEPT ![Vendor] =
                               @ + (auction.winningBidAmount * 9) \div 10]
              /\ outcome' = "Item receipt confirmed"

\* Escrows that exist or that a running closeAuction may still create
EscrowsInFlight ==
  Len(escrows) + Cardinality({q \in Procs : pc[q] \in {"ca_win", "ca_esc"}})

\* closeAuction, lines 131-159: open the transaction, read the auction, validate
closeAuction_validate(p, force) ==
  /\ Free(p)
  /\ EscrowsInFlight < MaxEscrows
  /\ closeRuns < MaxCloses
  /\ UNCHANGED <<now, db, accepted, paid, retracts>>
  /\ IF ~auction.isActive
       THEN Reply(p, "rejected") /\ UNCHANGED closeRuns
       ELSE IF now < auction.endTime /\ ~force
         THEN Reply(p, "rejected") /\ UNCHANGED closeRuns
         ELSE /\ loc' = [loc EXCEPT ![p] = [Blank EXCEPT !.user = auction.highestBidder]]
              /\ Goto(p, IF auction.highestBidder = NoUser THEN "ca_commit" ELSE "ca_win")
              /\ closeRuns' = closeRuns + 1
              /\ UNCHANGED outcome

\* setWinningBid, lines 169-193 (closeAuction, lines 164-165): the bid of the
\* largest amount among all bids of the auction is the only winning bid
setWinningBid(p) ==
  /\ pc[p] = "ca_win"
  /\ UNCHANGED <<now, balance, escrowedBalance, auction, escrows, confs,
                 disputes, ledger, hist>>
  /\ IF LiveBids = {}
       THEN Reply(p, "error") /\ UNCHANGED bids
       ELSE \E w \in Highest(LiveBids) :
              /\ bids' = [i \in DOMAIN bids |->
                            IF bids[i].live THEN [bids[i] EXCEPT !.isWinningBid = (i = w)]
                                            ELSE bids[i]]
              /\ loc' = [loc EXCEPT ![p].amount = bids[w].amount]
              /\ Goto(p, "ca_esc")
              /\ UNCHANGED outcome

\* A TokenTransaction document
Entry(user, type, amount, status, escrow) ==
  [user |-> user, type |-> type, amount |-> amount, status |-> status,
   escrow |-> escrow, frozen |-> FALSE]

\* createEscrow, lines 303-331 (closeAuction, line 168): reads the stored
\* auction, outside the transaction of closeAuction
createEscrow(p) ==
  /\ pc[p] = "ca_esc"
  /\ UNCHANGED <<now, balance, escrowedBalance, auction, bids, confs, disputes,
                 accepted, retracts, closeRuns>>
  /\ IF auction.highestBidder = NoUser \/ auction.winningBidAmount = 0
       THEN Reply(p, "error") /\ UNCHANGED <<escrows, ledger, paid>>
       ELSE /\ escrows' = Append(escrows, [buyer |-> auction.highestBidder,
                                           vendor |-> Vendor,
                                           tokenAmount |-> auction.winningBidAmount,
                                           status |-> "HELD",
                                           releaseReason |-> "none",
                                           releasedAt |-> 0])
            /\ paid' = Append(paid, 0)
            /\ ledger' = Append(ledger, Entry(auction.highestBidder, "ESCROW_HOLD",
                                              auction.winningBidAmount, "SUCCESS",
                                              Len(escrows) + 1))
            /\ Goto(p, "ca_refund")
            /\ UNCHANGED <<loc, outcome>>

\* Sum of the amounts of the bids of u in S
RECURSIVE SumBids(_, _)
SumBids(S, u) ==
  IF S = {} THEN 0
  ELSE LET i == CHOOSE j \in S : TRUE
       IN (IF bids[i].bidder = u THEN bids[i].amount ELSE 0) + SumBids(S \ {i}, u)

\* refundLosingBids (tokenTransactionController.js; closeAuction, line 171):
\* every other active bid that is not retracted goes back from the escrowed
\* balance of its bidder to the available balance
refundLosingBids(p) ==
  /\ pc[p] = "ca_refund"
  /\ LET L == {i \in LiveBids : bids[i].status = "active" /\ ~bids[i].isRetracted
                                 /\ ~bids[i].isWinningBid}
     IN /\ balance' = [u \in Users |-> balance[u] + SumBids(L, u)]
        /\ escrowedBalance' = [u \in Users |-> escrowedBalance[u] - SumBids(L, u)]
  /\ Goto(p, "ca_conf")
  /\ UNCHANGED <<now, auction, bids, escrows, confs, disputes, ledger, loc,
                 outcome, hist>>

\* createConfirmation, lines 11-37 (closeAuction, line 174): reads the stored
\* auction, creates the record, then notifies; a notification that throws
\* makes closeAuction abort
createConfirmation(p) ==
  /\ pc[p] = "ca_conf"
  /\ UNCHANGED <<now, balance, escrowedBalance, auction, bids, escrows,
                 disputes, ledger, hist>>
  /\ IF auction.highestBidder = NoUser
       THEN Goto(p, "ca_commit") /\ UNCHANGED <<confs, loc, outcome>>
       ELSE /\ confs' = Append(confs, [vendor |-> Vendor,
                                       buyer |-> auction.highestBidder,
                                       status |-> IF auction.isDigital
                                                    THEN "PENDING_DELIVERY"
                                                    ELSE "PENDING_SHIPMENT",
                                       deliveredAt |-> -1])
            /\ \/ Goto(p, "ca_commit") /\ UNCHANGED <<loc, outcome>>
               \/ Reply(p, "error")

\* closeAuction, lines 176-189: the PENDING platform fee entry and the save of
\* isActive, endedAt and winningBidAmount, committed together
closeAuction_commit(p) ==
  /\ pc[p] = "ca_commit"
  /\ ~loc[p].stale
  /\ auction' = [auction EXCEPT !.isActive = FALSE, !.ended = TRUE,
                                !.winningBidAmount =
                                   IF loc[p].user # NoUser THEN loc[p].amount ELSE @]
  /\ ledger' = IF loc[p].user # NoUser
                 THEN Append(ledger, Entry(Vendor, "PLATFORM_FEE",
                                           loc[p].amount \div FEE_DIVISOR, "PENDING", 0))
                 ELSE ledger
  /\ pc' = [pc EXCEPT ![p] = "idle"]
  /\ loc' = [StaleOthers(p, loc) EXCEPT ![p] = Blank]
  /\ outcome' \in {"ok", "error"}
  /\ UNCHANGED <<now, balance, escrowedBalance, bids, escrows, confs, disputes, hist>>

\* closeAuction, lines 211-218: the commit fails on a write conflict
closeAuction_abort(p) ==
  /\ pc[p] = "ca_commit"
  /\ loc[p].stale
  /\ Reply(p, "error")
  /\ UNCHANGED <<now, db, hist>>

closeAuction(p) ==
  \/ \E force \in BOOLEAN : closeAuction_validate(p, force)
  \/ setWinningBid(p)
  \/ createEscrow(p)
  \/ refundLosingBids(p)
  \/ createConfirmation(p)
  \/ closeAuction_commit(p)
  \/ closeAuction_abort(p)

----------------------------------------------------------------------------
\* escrowController.js (in auctionController.js, from line 294)

\* Escrow.findOne({auction, status: 'HELD'}): the first escrow that is HELD
Held == {e \in DOMAIN escrows : escrows[e].status = "HELD"}

FirstOf(S) == CHOOSE e \in S : \A f \in S : e <= f

\* lines 339-340 and 502-503: platformFee = tokenAmount * 0.1
PlatformFee(tokenAmount) == tokenAmount \div FEE_DIVISOR

\* Mutation: the vendor is paid without the fee being taken off
VendorAmountNoFee(tokenAmount) == tokenAmount

VendorAmount(tokenAmount) == tokenAmount - PlatformFee(tokenAmount)

Settled(e, status, reason) ==
  [escrows EXCEPT ![e].status = status, ![e].releaseReason = reason,
                  ![e].releasedAt = now]

\* releaseToVendor, lines 342-372: save the escrow as RELEASED, credit the
\* vendor, record the payout and the fee
releaseToVendor_apply(e) ==
  LET T == escrows[e].tokenAmount IN
  /\ escrows' = Settled(e, "RELEASED", "DELIVERY_CONFIRMED")
  /\ balance' = [balance EXCEPT ![escrows[e].vendor] = @ + VendorAmount(T)]
  /\ ledger' = ledger \o
       << Entry(escrows[e].vendor, "PAYOUT_VENDOR", VendorAmount(T), "SUCCESS", e),
          Entry(escrows[e].vendor, "PLATFORM_FEE", PlatformFee(T), "SUCCESS", 0) >>
  /\ paid' = [paid EXCEPT ![e] = @ + VendorAmount(T) + PlatformFee(T)]

\* refundToBuyer, lines 395-414: save the escrow as REFUNDED, credit the buyer,
\* record the refund
refundToBuyer_apply(e, reason) ==
  LET T == escrows[e].tokenAmount IN
  /\ escrows' = Settled(e, "REFUNDED", reason)
  /\ balance' = [balance EXCEPT ![escrows[e].buyer] = @ + T]
  /\ ledger' = Append(ledger, Entry(escrows[e].buyer, "ESCROW_REFUND", T, "SUCCESS", e))
  /\ paid' = [paid EXCEPT ![e] = @ + T]

\* adminEscrowAction, lines 451-470, with releaseToVendor, lines 335-336, or
\* refundToBuyer, lines 390-391: find the escrow by id, then the HELD escrow
\* of its auction
adminEscrowAction_find(p, id, action) ==
  /\ Free(p)
  /\ id \in DOMAIN escrows
  /\ UNCHANGED <<now, db, hist>>
  /\ IF Held = {}
       THEN Reply(p, "No active escrow found")
       ELSE /\ loc' = [loc EXCEPT ![p] = [Blank EXCEPT !.esc = FirstOf(Held),
                                                      !.bid = id, !.act = action]]
            /\ Goto(p, "ae_apply")
            /\ UNCHANGED outcome

\* adminEscrowAction, lines 461-474: the release or the refund takes effect;
\* a notification that throws turns the answer into an error
adminEscrowAction_apply(p) ==
  /\ pc[p] = "ae_apply"
  /\ IF loc[p].act = "RELEASE"
       THEN releaseToVendor_apply(loc[p].esc)
       ELSE refundToBuyer_apply(loc[p].esc, "ADMIN")
  /\ pc' = [pc EXCEPT ![p] = "idle"]
  /\ loc' = [loc EXCEPT ![p] = Blank]
  /\ outcome' \in {"ok", "error"}
  /\ UNCHANGED <<now, escrowedBalance, auction, bids, confs, disputes, accepted, retracts, closeRuns>>

adminEscrowAction(p) ==
  \/ \E id \in 1..MaxEscrows, action \in {"RELEASE", "REFUND"} :
       adminEscrowAction_find(p, id, action)
  \/ adminEscrowAction_apply(p)

\* markDisputed, lines 432-448: HELD -> DISPUTED in one findOneAndUpdate, then
\* the entries linked to the escrow are frozen
markDisputed ==
  /\ Held # {}
  /\ LET e == FirstOf(Held) IN
       /\ escrows' = [escrows EXCEPT ![e].status = "DISPUTED"]
       /\ ledger' = [k \in DOMAIN ledger |->
                       IF ledger[k].escrow = e THEN [ledger[k] EXCEPT !.frozen = TRUE]
                                               ELSE ledger[k]]
  /\ outcome' = "ok"
  /\ UNCHANGED <<now, balance, escrowedBalance, auction, bids, confs, disputes,
                 pc, loc, hist>>

----------------------------------------------------------------------------
\* deliveryConfirmationController.js

\* Mutation: the status of the record is not part of the filter
markShippedAnyStatus(u) ==
  /\ LET S == {c \in DOMAIN confs : confs[c].vendor = u}
     IN IF S = {}
          THEN outcome' = "No pending shipment found" /\ UNCHANGED confs
          ELSE /\ confs' = [confs EXCEPT ![FirstOf(S)].status = "SHIPPED"]
               /\ outcome' \in {"ok", "Failed to update shipment"}
  /\ UNCHANGED <<now, balance, escrowedBalance, auction, bids, escrows,
                 disputes, ledger, pc, loc, hist>>

\* markShipped, lines 40-72: the vendor's first PENDING_SHIPMENT record
markShipped(u) ==
  /\ LET S == {c \in DOMAIN confs : confs[c].vendor = u
                                    /\ confs[c].status = "PENDING_SHIPMENT"}
     IN IF S = {}
          THEN outcome' = "No pending shipment found" /\ UNCHANGED confs
          ELSE /\ confs' = [confs EXCEPT ![FirstOf(S)].status = "SHIPPED"]
               /\ outcome' \in {"ok", "Failed to update shipment"}
  /\ UNCHANGED <<now, balance, escrowedBalance, auction, bids, escrows,
                 disputes, ledger, pc, loc, hist>>

\* confirmDelivery, lines 101-110: the first PENDING platform fee entry
PendingFee(l) == {k \in DOMAIN l : l[k].type = "PLATFORM_FEE" /\ l[k].status = "PENDING"}

\* releaseEscrow, lines 493-539, in the caller's transaction: release the
\* first HELD escrow e to the vendor
releaseEscrow_apply(e, l) ==
  LET T == escrows[e].tokenAmount IN
  /\ escrows' = Settled(e, "RELEASED", "DELIVERY_CONFIRMED")
  /\ balance' = [balance EXCEPT ![escrows[e].vendor] = @ + VendorAmount(T)]
  /\ ledger' = l \o
       << Entry(escrows[e].vendor, "PAYOUT_VENDOR", VendorAmount(T), "SUCCESS", e),
          Entry(escrows[e].vendor, "PLATFORM_FEE", PlatformFee(T), "SUCCESS", e) >>
  /\ paid' = [paid EXCEPT ![e] = @ + VendorAmount(T) + PlatformFee(T)]

\* Mutation: the update of the confirmation is not in the transaction and
\* stays when releaseEscrow throws
confirmDeliveryNoSession(u) ==
  /\ UNCHANGED <<now, escrowedBalance, auction, bids, disputes, pc, loc,
                 accepted, retracts, closeRuns>>
  /\ LET S == {c \in DOMAIN confs : confs[c].buyer = u
                                    /\ confs[c].status \in {"SHIPPED", "PENDING_DELIVERY"}}
     IN IF S = {}
          THEN outcome' = "Nothing to confirm"
               /\ UNCHANGED <<confs, escrows, balance, ledger, paid>>
          ELSE /\ confs' = [confs EXCEPT ![FirstOf(S)].status = "DELIVERED",
                                         ![FirstOf(S)].deliveredAt = now]
               /\ IF Held = {}
                    THEN outcome' = "Confirmation failed"
                         /\ UNCHANGED <<escrows, balance, ledger, paid>>
                    ELSE /\ releaseEscrow_apply(FirstOf(Held),
                              IF PendingFee(ledger) = {} THEN ledger
                              ELSE [ledger EXCEPT ![FirstOf(PendingFee(ledger))].status = "SUCCESS"])
                         /\ outcome' = "Delivery confirmed"

\* confirmDelivery, lines 75-128: one transaction; nothing of it is kept when
\* releaseEscrow throws
confirmDelivery(u) ==
  /\ UNCHANGED <<now, escrowedBalance, auction, bids, disputes, pc, loc,
                 accepted, retracts, closeRuns>>
  /\ LET S == {c \in DOMAIN confs : confs[c].buyer = u
                                    /\ confs[c].status \in {"SHIPPED", "PENDING_DELIVERY"}}
     IN IF S = {}
          THEN outcome' = "Nothing to confirm"
               /\ UNCHANGED <<confs, escrows, balance, ledger, paid>>
          ELSE IF Held = {}
            THEN outcome' = "Confirmation failed"
                 /\ UNCHANGED <<confs, escrows, balance, ledger, paid>>
            ELSE /\ confs' = [confs EXCEPT ![FirstOf(S)].status = "DELIVERED",
                                           ![FirstOf(S)].deliveredAt = now]
                 /\ releaseEscrow_apply(FirstOf(Held),
                      IF PendingFee(ledger) = {} THEN ledger
                      ELSE [ledger EXCEPT ![FirstOf(PendingFee(ledger))].status = "SUCCESS"])
                 /\ outcome' = "Delivery confirmed"

\* Mutation: the status of the record is not part of the filter
openDisputeAnyStatus(u) ==
  /\ LET S == {c \in DOMAIN confs : confs[c].buyer = u}
     IN IF S = {}
          THEN outcome' = "Cannot dispute this delivery" /\ UNCHANGED confs
          ELSE /\ confs' = [confs EXCEPT ![FirstOf(S)].status = "DISPUTED"]
               /\ outcome' \in {"ok", "Dispute failed"}
  /\ UNCHANGED <<now, balance, escrowedBalance, auction, bids, escrows,
                 disputes, ledger, pc, loc, hist>>

\* openDispute, lines 131-166: the buyer's first record that is not DELIVERED
openDispute(u) ==
  /\ LET S == {c \in DOMAIN confs : confs[c].buyer = u /\ confs[c].status # "DELIVERED"}
     IN IF S = {}
          THEN outcome' = "Cannot dispute this delivery" /\ UNCHANGED confs
          ELSE /\ confs' = [confs EXCEPT ![FirstOf(S)].status = "DISPUTED"]
               /\ outcome' \in {"ok", "Dispute failed"}
  /\ UNCHANGED <<now, balance, escrowedBalance, auction, bids, escrows,
                 disputes, ledger, pc, loc, hist>>

\* resolveDispute, lines 169-210 (admin, on a delivery confirmation): one
\* transaction; refundBuyer is not defined, so REFUND_BUYER throws and
\* nothing of it is kept
resolveDelivery(c, resolution) ==
  /\ c \in DOMAIN confs
  /\ UNCHANGED <<now, escrowedBalance, auction, bids, disputes, pc, loc,
                 accepted, retracts, closeRuns>>
  /\ IF resolution = "RELEASE_TO_VENDOR" /\ Held # {}
       THEN /\ confs' = [confs EXCEPT ![c].status = "DELIVERED"]
            /\ releaseEscrow_apply(FirstOf(Held), ledger)
            /\ outcome' = "ok"
       ELSE /\ outcome' = "Resolution failed"
            /\ UNCHANGED <<confs, escrows, balance, ledger, paid>>

----------------------------------------------------------------------------
\* disputeController.js (in unnamed/part_000, from line 537)

DisputeWindow == DISPUTE_WINDOW_DAYS * 86400

\* Mutation: the dispute is created but the escrow is not frozen
raiseDisputeNoFreeze(u) ==
  /\ Len(disputes) < MaxDisputes
  /\ UNCHANGED <<now, balance, escrowedBalance, auction, bids, confs, ledger,
                 pc, loc, hist>>
  /\ IF u # auction.highestBidder /\ u # Vendor
       THEN outcome' = "Not a party to this auction" /\ UNCHANGED <<escrows, disputes>>
       ELSE IF escrows = <<>> \/ escrows[1].status # "HELD"
         THEN outcome' = "No active escrow to dispute" /\ UNCHANGED <<escrows, disputes>>
         ELSE /\ disputes' = Append(disputes,
                    [escrow |-> 1, raisedBy |-> u,
                     against |-> IF u = auction.highestBidder THEN Vendor
                                 ELSE auction.highestBidder,
                     status |-> "OPEN", decision |-> "none", evidence |-> 0])
              /\ UNCHANGED escrows
              /\ outcome' \in {"ok", "error"}

\* Mutation: the status of the escrow is not checked
raiseDisputeAnyStatus(u) ==
  /\ Len(disputes) < MaxDisputes
  /\ UNCHANGED <<now, balance, escrowedBalance, auction, bids, confs, ledger,
                 pc, loc, hist>>
  /\ IF u # auction.highestBidder /\ u # Vendor
       THEN outcome' = "Not a party to this auction" /\ UNCHANGED <<escrows, disputes>>
       ELSE IF escrows = <<>>
         THEN outcome' = "No active escrow to dispute" /\ UNCHANGED <<escrows, disputes>>
         ELSE /\ disputes' = Append(disputes,
                    [escrow |-> 1, raisedBy |-> u,
                     against |-> IF u = auction.highestBidder THEN Vendor
                                 ELSE auction.highestBidder,
                     status |-> "OPEN", decision |-> "none", evidence |-> 0])
              /\ escrows' = [escrows EXCEPT ![1].status = "DISPUTED"]
              /\ outcome' \in {"ok", "error"}

\* raiseDispute, lines 548-642: one transaction; the save of the escrow makes
\* transactions that run at the same time conflict, so they take effect one
\* after the other
raiseDispute(u) ==
  /\ Len(disputes) < MaxDisputes
  /\ UNCHANGED <<now, balance, escrowedBalance, auction, bids, confs, ledger,
                 pc, loc, hist>>
  /\ IF u # auction.highestBidder /\ u # Vendor
       THEN outcome' = "Not a party to this auction" /\ UNCHANGED <<escrows, disputes>>
       ELSE IF escrows = <<>> \/ escrows[1].status # "HELD"
         THEN outcome' = "No active escrow to dispute" /\ UNCHANGED <<escrows, disputes>>
         ELSE IF /\ u = auction.highestBidder
                 /\ confs # <<>>
                 /\ confs[1].deliveredAt >= 0
                 /\ now > confs[1].deliveredAt + DisputeWindow
           THEN outcome' = "Dispute window closed" /\ UNCHANGED <<escrows, disputes>>
           ELSE /\ disputes' = Append(disputes,
                      [escrow |-> 1, raisedBy |-> u,
                       against |-> IF u = auction.highestBidder THEN Vendor
                                   ELSE auction.highestBidder,
                       status |-> "OPEN", decision |-> "none", evidence |-> 0])
                /\ escrows' = [escrows EXCEPT ![1].status = "DISPUTED"]
                /\ outcome' \in {"ok", "error"}

\* raiseDispute step by step, for calls that run at the same time.
\* Lines 556-599: the reads and the checks, in the snapshot of the transaction
raiseDispute_read(p, u) ==
  /\ Free(p)
  /\ Len(disputes) < MaxDisputes
  /\ UNCHANGED <<now, db, hist>>
  /\ IF u # auction.highestBidder /\ u # Vendor
       THEN Reply(p, "Not a party to this auction")
       ELSE IF escrows = <<>> \/ escrows[1].status # "HELD"
         THEN Reply(p, "No active escrow to dispute")
         ELSE IF /\ u = auction.highestBidder
                 /\ confs # <<>>
                 /\ confs[1].deliveredAt >= 0
                 /\ now > confs[1].deliveredAt + DisputeWindow
           THEN Reply(p, "Dispute window closed")
           ELSE /\ loc' = [loc EXCEPT ![p] = [Blank EXCEPT !.user = u, !.esc = 1]]
                /\ Goto(p, "dp_commit")
                /\ UNCHANGED outcome

\* Mutation: the escrow is saved without the session, so a write to it since
\* the read does not make the transaction fail
raiseDispute_commitNoConflict(p) ==
  /\ pc[p] = "dp_commit"
  /\ UNCHANGED <<now, balance, escrowedBalance, auction, bids, confs, ledger, hist>>
  /\ disputes' = Append(disputes,
         [escrow |-> loc[p].esc, raisedBy |-> loc[p].user,
          against |-> IF loc[p].user = auction.highestBidder THEN Vendor
                      ELSE auction.highestBidder,
          status |-> "OPEN", decision |-> "none", evidence |-> 0])
  /\ escrows' = [escrows EXCEPT ![loc[p].esc].status = "DISPUTED"]
  /\ pc' = [pc EXCEPT ![p] = "idle"]
  /\ loc' = [loc EXCEPT ![p] = Blank]
  /\ outcome' \in {"ok", "error"}

\* Lines 601-617 and 633-638: Dispute.create, escrow.save and the commit; the
\* save fails with a write conflict, and the transaction aborts, when the
\* escrow was written since the read (every write to an escrow changes its
\* status)
raiseDispute_commit(p) ==
  /\ pc[p] = "dp_commit"
  /\ UNCHANGED <<now, balance, escrowedBalance, auction, bids, confs, ledger, hist>>
  /\ IF escrows[loc[p].esc].status # "HELD"
       THEN Reply(p, "Failed to raise dispute") /\ UNCHANGED <<escrows, disputes>>
       ELSE /\ disputes' = Append(disputes,
                   [escrow |-> loc[p].esc, raisedBy |-> loc[p].user,
                    against |-> IF loc[p].user = auction.highestBidder THEN Vendor
                                ELSE auction.highestBidder,
                    status |-> "OPEN", decision |-> "none", evidence |-> 0])
            /\ escrows' = [escrows EXCEPT ![loc[p].esc].status = "DISPUTED"]
            /\ pc' = [pc EXCEPT ![p] = "idle"]
            /\ loc' = [loc EXCEPT ![p] = Blank]
            /\ outcome' \in {"ok", "error"}

raiseDisputeBy(p) ==
  \/ \E u \in Users : raiseDispute_read(p, u)
  \/ raiseDispute_commit(p)

\* addEvidence, lines 645-671: one findOneAndUpdate on a dispute of which u is
\* a party and that is OPEN or UNDER_REVIEW
addEvidence(d, u) ==
  /\ IF /\ d \in DOMAIN disputes
        /\ (disputes[d].raisedBy = u \/ disputes[d].against = u)
        /\ disputes[d].status \in {"OPEN", "UNDER_REVIEW"}
       THEN /\ disputes[d].evidence < MaxEvidence
            /\ disputes' = [disputes EXCEPT ![d].evidence = @ + 1]
            /\ outcome' = "ok"
       ELSE /\ outcome' = "Dispute not found or closed"
            /\ UNCHANGED disputes
  /\ UNCHANGED <<now, balance, escrowedBalance, auction, bids, escrows, confs,
                 ledger, pc, loc, hist>>

\* assignAdmin, lines 674-698: one findByIdAndUpdate by the id alone, then the
\* notification, which may throw
assignAdmin(d) ==
  /\ IF d \in DOMAIN disputes
       THEN /\ disputes' = [disputes EXCEPT ![d].status = "UNDER_REVIEW"]
            /\ outcome' \in {"ok", "Assignment failed"}
       ELSE /\ outcome' = "Dispute not found"
            /\ UNCHANGED disputes
  /\ UNCHANGED <<now, balance, escrowedBalance, auction, bids, escrows, confs,
                 ledger, pc, loc, hist>>

\* partialResolution, lines 763-799: half of the first escrow of the auction to
\* the buyer, half to the vendor
partialResolution_apply ==
  LET T == escrows[1].tokenAmount
      refundAmount == T \div 2
      vendorAmount == T - (T \div 2)
  IN /\ balance' = [balance EXCEPT ![escrows[1].buyer] = @ + refundAmount,
                                   ![escrows[1].vendor] = @ + vendorAmount]
     /\ ledger' = ledger \o
          << Entry(escrows[1].buyer, "DISPUTE_PARTIAL_REFUND", refundAmount, "SUCCESS", 0),
             Entry(escrows[1].vendor, "DISPUTE_PARTIAL_PAYOUT", vendorAmount, "SUCCESS", 0) >>
     /\ paid' = [paid EXCEPT ![1] = @ + refundAmount + vendorAmount]

Resolved(d, decision) ==
  [disputes EXCEPT ![d].status = "RESOLVED", ![d].decision = decision]

\* resolveDispute, lines 701-735: the decisions whose effects are all in the
\* transaction of the handler
resolveDispute_inTx(d, decision) ==
  /\ d \in DOMAIN disputes
  /\ Len(ledger) < MaxLedger
  /\ disputes' = Resolved(d, decision)
  /\ IF decision = "PARTIAL_REFUND"
       THEN partialResolution_apply /\ UNCHANGED escrows
       ELSE UNCHANGED <<escrows, balance, ledger, paid>>
  /\ outcome' \in {"ok", "error"}
  /\ UNCHANGED <<now, escrowedBalance, auction, bids, confs, pc, loc, accepted, retracts, closeRuns>>

\* resolveDispute, lines 722-728, with refundToBuyer, lines 390-391, or
\* releaseToVendor, lines 335-336: both run outside the transaction
resolveDispute_find(p, d, decision) ==
  /\ Free(p)
  /\ d \in DOMAIN disputes
  /\ UNCHANGED <<now, db, hist>>
  /\ IF Held = {}
       THEN Reply(p, "No active escrow found")
       ELSE /\ loc' = [loc EXCEPT ![p] = [Blank EXCEPT !.esc = FirstOf(Held),
                                                      !.bid = d, !.act = decision]]
            /\ Goto(p, "rd_apply")
            /\ UNCHANGED outcome

\* resolveDispute, lines 722-735 and 751-753: the refund or the release takes
\* effect; when its notification throws the transaction aborts and the
\* dispute stays as it was
resolveDispute_apply(p) ==
  /\ pc[p] = "rd_apply"
  /\ IF loc[p].act = "RELEASE_TO_SELLER"
       THEN releaseToVendor_apply(loc[p].esc)
       ELSE refundToBuyer_apply(loc[p].esc, "DISPUTE_RESOLUTION")
  /\ \/ disputes' = Resolved(loc[p].bid, loc[p].act) /\ outcome' = "ok"
     \/ UNCHANGED disputes /\ outcome' = "error"
  /\ pc' = [pc EXCEPT ![p] = "idle"]
  /\ loc' = [loc EXCEPT ![p] = Blank]
  /\ UNCHANGED <<now, escrowedBalance, auction, bids, confs, accepted, retracts, closeRuns>>

resolveDispute(p) ==
  \/ \E d \in 1..MaxDisputes, decision \in {"REFUND_BUYER", "RELEASE_TO_SELLER"} :
       resolveDispute_find(p, d, decision)
  \/ resolveDispute_apply(p)

----------------------------------------------------------------------------
NextBid == Tick \/ \E p \in Procs : placeBid(p) \/ retractBid(p)

SpecBid == Init /\ [][NextBid]_vars

NextPlace == Tick \/ \E p \in Procs : placeBid(p)

SpecPlace == Init /\ [][NextPlace]_vars

\* No other handler is running.
Solo(p) == \A q \in Procs \ {p} : pc[q] = "idle"

\* Bids are placed one at a time; closes run concurrently.
NextClose ==
  \/ Tick
  \/ \E w \in PresetAmounts : updateAuction(w)
  \/ \E p \in Procs : Solo(p) /\ placeBid(p)
  \/ \E p \in Procs : closeAuction(p)

SpecClose == Init /\ [][NextClose]_vars

\* Closes one after the other.
NextCloseSeq ==
  \/ Tick
  \/ \E w \in PresetAmounts : updateAuction(w)
  \/ \E p \in Procs : Solo(p) /\ placeBid(p)
  \/ \E p \in Procs : Solo(p) /\ closeAuction(p)

SpecCloseSeq == Init /\ [][NextCloseSeq]_vars

\* The escrow after a close: bids are placed and the auction is closed one
\* handler at a time; releases and refunds run concurrently.
NextEscrow ==
  \/ \E w \in PresetAmounts : updateAuction(w)
  \/ \E p \in Procs : Solo(p) /\ placeBidBy(p, "b1")
  \/ \E p \in Procs : Solo(p) /\ closeAuction(p)
  \/ \E p \in Procs : adminEscrowAction(p)
  \/ markDisputed

SpecEscrow == Init /\ [][NextEscrow]_vars

\* Disputes on the escrow after a close, one handler at a time.
NextDispute ==
  \/ \E w \in PresetAmounts : updateAuction(w)
  \/ \E p \in Procs : Solo(p) /\ placeBidBy(p, "b1")
  \/ \E p \in Procs : Solo(p) /\ closeAuction(p)
  \/ \E u \in Users : raiseDispute(u)
  \/ \E p \in Procs : Solo(p) /\ adminEscrowAction(p)
  \/ \E p \in Procs : Solo(p) /\ resolveDispute(p)
  \/ \E d \in 1..MaxDisputes, decision \in {"PARTIAL_REFUND", "OTHER"} :
       resolveDispute_inTx(d, decision)
  \/ \E d \in 1..MaxDisputes, u \in Users : addEvidence(d, u)
  \/ \E d \in 1..MaxDisputes : assignAdmin(d)

SpecDispute == Init /\ [][NextDispute]_vars

\* Disputes raised at the same time on the escrow after a close, with the
\* admin's releases and refunds.
NextRaise ==
  \/ \E w \in PresetAmounts : updateAuction(w)
  \/ \E p \in Procs : Solo(p) /\ placeBidBy(p, "b1")
  \/ \E p \in Procs : Solo(p) /\ closeAuction(p)
  \/ \E p \in Procs : raiseDisputeBy(p)
  \/ \E p \in Procs : adminEscrowAction(p)
  \/ \E d \in 1..MaxDisputes, decision \in {"PARTIAL_REFUND", "OTHER"} :
       resolveDispute_inTx(d, decision)

SpecRaise == Init /\ [][NextRaise]_vars

\* The ways the vendor is paid after a close, one handler at a time.
NextPayout ==
  \/ \E w \in PresetAmounts : updateAuction(w)
  \/ \E p \in Procs : Solo(p) /\ placeBidBy(p, "b1")
  \/ \E p \in Procs : Solo(p) /\ closeAuction(p)
  \/ \E u \in Users : confirmReceipt(u)
  \/ \E u \in Users : markShipped(u)
  \/ \E u \in Users : confirmDelivery(u)
  \/ \E p \in Procs : Solo(p) /\ adminEscrowAction(p)

SpecPayout == Init /\ [][NextPayout]_vars

\* Bids, retractions and closes, one handler at a time.
NextWin ==
  \/ Tick
  \/ \E w \in PresetAmounts : updateAuction(w)
  \/ \E p \in Procs : Solo(p) /\ placeBid(p)
  \/ \E p \in Procs : Solo(p) /\ retractBid(p)
  \/ \E p \in Procs : Solo(p) /\ closeAuction(p)

SpecWin == Init /\ [][NextWin]_vars

\* Delivery after a close, one handler at a time.
NextDelivery ==
  \/ Tick
  \/ \E w \in PresetAmounts : updateAuction(w)
  \/ \E p \in Procs : Solo(p) /\ placeBidBy(p, "b1")
  \/ \E p \in Procs : Solo(p) /\ closeAuction(p)
  \/ \E u \in Users : markShipped(u)
  \/ \E u \in Users : confirmDelivery(u)
  \/ \E u \in Users : openDispute(u)
  \/ \E u \in Users : raiseDispute(u)
  \/ \E c \in 1..MaxEscrows, r \in {"RELEASE_TO_VENDOR", "REFUND_BUYER"} :
       resolveDelivery(c, r)

SpecDelivery == InitAny /\ [][NextDelivery]_vars

----------------------------------------------------------------------------
\* Properties

Terminal == {"RELEASED", "REFUNDED", "RESOLVED"}

EscrowStatuses == {"HELD", "RELEASED", "REFUNDED", "DISPUTED", "RESOLVED"}

\* The ledger entries of a type and a status
Entries(type, status) ==
  {k \in DOMAIN ledger : ledger[k].type = type /\ ledger[k].status = status}

\* The escrows in a status
EscrowsIn(status) == {e \in DOMAIN escrows : escrows[e].status = status}

RECURSIVE SumAmounts(_)
SumAmounts(K) ==
  IF K = {} THEN 0
  ELSE LET k == CHOOSE j \in K : TRUE IN ledger[k].amount + SumAmounts(K \ {k})

RECURSIVE SumTokenAmounts(_)
SumTokenAmounts(E) ==
  IF E = {} THEN 0
  ELSE LET e == CHOOSE f \in E : TRUE IN escrows[e].tokenAmount + SumTokenAmounts(E \ {e})

\* C1: in every reachable state, under any interleaving of the handlers, every
\* account has balance >= 0 and escrowedBalance >= 0.
C1_BalancesNonNegative ==
  \A u \in Users : balance[u] >= 0 /\ escrowedBalance[u] >= 0

\* C2: for every escrow, whatever the interleaving of the releases and refunds
\* on it, the sum credited out of it (to the vendor, the buyer and the
\* platform fee) never exceeds its tokenAmount.
C2_CreditedAtMostTokenAmount ==
  \A e \in DOMAIN escrows : paid[e] <= escrows[e].tokenAmount

\* C3: a release or refund invoked on an escrow that is already RELEASED,
\* REFUNDED or RESOLVED fails: it never gets past the lookup of the escrow to
\* the step that credits an account.
C3_TerminalEscrowRejected ==
  [][\A p \in Procs :
       (pc[p] = "idle" /\ pc'[p] = "ae_apply")
         => escrows[loc'[p].bid].status \notin Terminal]_vars

\* C4: the status of every escrow is one of HELD, RELEASED, REFUNDED, DISPUTED,
\* RESOLVED, and once it is RELEASED, REFUNDED or RESOLVED no step changes its
\* status, releaseReason or releasedAt.
C4_TerminalImmutable ==
  [][\A e \in DOMAIN escrows :
       /\ escrows[e].status \in EscrowStatuses
       /\ escrows[e].status \in Terminal =>
            /\ escrows'[e].status = escrows[e].status
            /\ escrows'[e].releaseReason = escrows[e].releaseReason
            /\ escrows'[e].releasedAt = escrows[e].releasedAt]_vars

\* C5: the tokenAmounts of the resolved escrows add up to the amounts of their
\* terminal ledger entries: PAYOUT_VENDOR + PLATFORM_FEE for the released
\* ones, ESCROW_REFUND for the refunded ones.
C5_TokenAmountIsSumOfEntries ==
  /\ SumTokenAmounts(EscrowsIn("RELEASED")) =
       SumAmounts(Entries("PAYOUT_VENDOR", "SUCCESS") \cup Entries("PLATFORM_FEE", "SUCCESS"))
  /\ SumTokenAmounts(EscrowsIn("REFUNDED")) = SumAmounts(Entries("ESCROW_REFUND", "SUCCESS"))

\* C6: the ledger holds exactly one terminal entry set for each resolved
\* escrow: one PAYOUT_VENDOR and one SUCCESS PLATFORM_FEE entry for each
\* released escrow, one ESCROW_REFUND entry for each refunded escrow; after
\* closeAuction and confirmDelivery the auction has one SUCCESS PLATFORM_FEE.
C6_OneTerminalEntrySet ==
  /\ Cardinality(Entries("PAYOUT_VENDOR", "SUCCESS")) = Cardinality(EscrowsIn("RELEASED"))
  /\ Cardinality(Entries("PLATFORM_FEE", "SUCCESS")) = Cardinality(EscrowsIn("RELEASED"))
  /\ Cardinality(Entries("ESCROW_REFUND", "SUCCESS")) = Cardinality(EscrowsIn("REFUNDED"))

\* C7: when closeAuction is invoked again after an invocation that went
\* through, the second invocation is rejected as already closed, and the
\* ledger holds at most one ESCROW_HOLD and one PENDING PLATFORM_FEE entry.
C7_SecondCloseRejected ==
  [][/\ closeRuns' > closeRuns => closeRuns = 0
     /\ Cardinality({k \in DOMAIN ledger' : ledger'[k].type = "ESCROW_HOLD"}) <= 1
     /\ Cardinality({k \in DOMAIN ledger' : ledger'[k].type = "PLATFORM_FEE"
                                            /\ ledger'[k].status = "PENDING"}) <= 1]_vars

\* C8: of two closeAuction handlers running at the same time at most one
\* executes the settlement (from the winning-bid marking to the delivery
\* confirmation).
C8_SettlementAtMostOnce ==
  Cardinality({p \in Procs : pc[p] \in {"ca_esc", "ca_refund", "ca_conf"}}) <= 1

\* C9: under any interleaving of placeBid and retractBid the accepted bid
\* amounts, in acceptance order, are strictly increasing, each at least 1.05
\* times the one accepted before it.
C9_AcceptedIncreasing ==
  \A k \in DOMAIN accepted :
     k > 1 => /\ accepted[k] > accepted[k - 1]
              /\ ~BelowMinValidBid(accepted[k], accepted[k - 1])

\* C10: bid acceptance is linearized: a placeBid is accepted only if the
\* currentPrice it validated its amount against is still the currentPrice
\* when its bid becomes the highest.
C10_AcceptedAgainstCurrentPrice ==
  [][\A p \in Procs :
       (pc[p] = "pb_finW" /\ pc'[p] = "idle" /\ auction' # auction)
         => auction.currentPrice = loc[p].rprice]_vars

\* C11: placeBid is all-or-nothing: when finalizeBidPlacement aborts after the
\* debit, the step that ends the request gives the amount back from the
\* escrowedBalance to the balance of the bidder and leaves no bid of the attempt.
C11_FailedBidRolledBack ==
  [][\A p \in Procs :
       (pc[p] = "pb_finW" /\ pc'[p] = "idle" /\ auction' = auction)
         => /\ balance'[loc[p].user] = balance[loc[p].user] + loc[p].amount
            /\ escrowedBalance'[loc[p].user] =
                 escrowedBalance[loc[p].user] - loc[p].amount
            /\ ~bids'[loc[p].bid].live]_vars

\* C12: when the settlement of closeAuction fails, all of it is undone: while
\* the auction is still active and no handler runs, no bid is marked as the
\* winning bid and no escrow, delivery confirmation or ledger entry exists.
C12_FailedCloseLeavesNothing ==
  (auction.isActive /\ \A p \in Procs : pc[p] = "idle")
    => /\ \A i \in LiveBids : ~bids[i].isWinningBid
       /\ escrows = <<>>
       /\ confs = <<>>
       /\ ledger = <<>>

\* C13: a closeAuction that passed the validation on an auction with a highest
\* bidder goes through: the escrow creation does not fail, and the step that
\* closes the auction leaves the highest bid marked as the winning bid, a HELD
\* escrow whose tokenAmount is the winning bid amount, a delivery confirmation
\* and a PENDING PLATFORM_FEE entry of 10% of the winning amount.
C13_CloseSettlesWinner ==
  [][\A p \in Procs :
       /\ pc[p] = "ca_esc" => pc'[p] # "idle"
       /\ (pc[p] = "ca_commit" /\ pc'[p] = "idle" /\ ~auction'.isActive
             /\ auction'.highestBidder # NoUser)
            => LET W == auction'.winningBidAmount IN
               /\ \E i \in LiveBids : /\ bids'[i].isWinningBid
                                      /\ bids'[i].amount = W
                                      /\ \A j \in LiveBids : bids'[j].amount <= W
               /\ \E e \in DOMAIN escrows' : /\ escrows'[e].status = "HELD"
                                             /\ escrows'[e].tokenAmount = W
               /\ confs' # <<>>
               /\ \E k \in DOMAIN ledger' : /\ ledger'[k].type = "PLATFORM_FEE"
                                            /\ ledger'[k].status = "PENDING"
                                            /\ ledger'[k].amount * FEE_DIVISOR = W]_vars

\* C14: the step in which the buyer's confirmDelivery takes effect on a
\* confirmation that is SHIPPED or PENDING_DELIVERY leaves it DELIVERED, turns
\* a HELD escrow of tokenAmount T into RELEASED, adds T minus the 10% fee to
\* the balance of the vendor, and leaves the PENDING PLATFORM_FEE entry of the
\* auction as SUCCESS.
C14_ConfirmDeliveryReleases ==
  [][\A c \in DOMAIN confs :
       confs'[c].deliveredAt # confs[c].deliveredAt
         => /\ confs[c].status \in {"SHIPPED", "PENDING_DELIVERY"}
            /\ confs'[c].status = "DELIVERED"
            /\ \E e \in Held :
                 /\ escrows'[e].status = "RELEASED"
                 /\ FEE_DIVISOR * balance'[Vendor] =
                      FEE_DIVISOR * balance[Vendor]
                        + (FEE_DIVISOR - 1) * escrows[e].tokenAmount
            /\ PendingFee(ledger') = {}
            /\ \A k \in PendingFee(ledger) : ledger'[k].status = "SUCCESS"]_vars

\* C14: delivery was confirmed on an escrow of 100.0 tokens: the vendor has
\* 90.0 and a former PENDING fee entry is SUCCESS.
C14_Witness ==
  /\ confs # <<>>
  /\ confs[1].status = "DELIVERED"
  /\ confs[1].deliveredAt >= 0
  /\ escrows[1].status = "RELEASED"
  /\ escrows[1].tokenAmount = 10 * 100
  /\ balance[Vendor] = 10 * 90
  /\ \E k \in DOMAIN ledger : /\ ledger[k].type = "PLATFORM_FEE"
                              /\ ledger[k].status = "SUCCESS"
                              /\ ledger[k].escrow = 0

\* C15: confirmDelivery is all-or-nothing: a step of confirmDelivery makes a
\* confirmation DELIVERED if and only if it releases a HELD escrow, and when
\* it releases none it changes no confirmation, escrow, balance or ledger entry.
C15_ConfirmAllOrNothing ==
  [][(\E u \in Users : confirmDelivery(u))
       => LET delivered == \E c \in DOMAIN confs : /\ confs[c].status # "DELIVERED"
                                                   /\ confs'[c].status = "DELIVERED"
              released == \E e \in DOMAIN escrows : /\ escrows[e].status = "HELD"
                                                    /\ escrows'[e].status = "RELEASED"
                                                    /\ balance'[Vendor] > balance[Vendor]
          IN /\ delivered <=> released
             /\ ~released => UNCHANGED <<confs, escrows, balance, escrowedBalance,
                                         ledger>>]_vars

\* C15: a confirmDelivery failed because the escrow is DISPUTED, and the
\* confirmation is still waiting for the buyer.
C15_Witness ==
  /\ outcome = "Confirmation failed"
  /\ escrows # <<>>
  /\ escrows[1].status = "DISPUTED"
  /\ Held = {}
  /\ \E c \in DOMAIN confs : confs[c].status \in {"SHIPPED", "PENDING_DELIVERY"}
  /\ \A c \in DOMAIN confs : confs[c].status # "DELIVERED"

\* C16: releaseToVendor, called by the admin override or by the resolution of
\* a dispute, fails only when the auction has no HELD and no DISPUTED escrow:
\* with a HELD or DISPUTED escrow the call goes on to release it.
C16_ReleaseOnHeldOrDisputed ==
  [][\A p \in Procs :
       (/\ \/ \E id \in 1..MaxEscrows : adminEscrowAction_find(p, id, "RELEASE")
           \/ \E d \in 1..MaxDisputes : resolveDispute_find(p, d, "RELEASE_TO_SELLER")
        /\ \E e \in DOMAIN escrows : escrows[e].status \in {"HELD", "DISPUTED"})
         => pc'[p] # "idle"]_vars

\* C17: refundToBuyer, called by the admin override or by the resolution of a
\* dispute, goes on to refund the escrow when the auction has a HELD or a
\* DISPUTED escrow.
C17_RefundOnHeldOrDisputed ==
  [][\A p \in Procs :
       (/\ \/ \E id \in 1..MaxEscrows : adminEscrowAction_find(p, id, "REFUND")
           \/ \E d \in 1..MaxDisputes : resolveDispute_find(p, d, "REFUND_BUYER")
        /\ \E e \in DOMAIN escrows : escrows[e].status \in {"HELD", "DISPUTED"})
         => pc'[p] # "idle"]_vars

\* C18: a dispute the buyer raises after the delivery is accepted when it is
\* raised within DISPUTE_WINDOW_DAYS of deliveredAt, and is rejected, with the
\* escrows and disputes unchanged, when it is raised later.
C18_DisputeWindow ==
  [][(/\ auction.highestBidder # NoUser
      /\ raiseDispute(auction.highestBidder)
      /\ confs # <<>>
      /\ confs[1].deliveredAt >= 0)
       => IF now <= confs[1].deliveredAt + DisputeWindow
            THEN Len(disputes') = Len(disputes) + 1
            ELSE /\ outcome' = "Dispute window closed"
                 /\ UNCHANGED <<escrows, disputes>>]_vars

\* C19: resolving a dispute with PARTIAL_REFUND at ratio 0.5 on an escrow of
\* tokenAmount T credits the buyer and the vendor half of T each, writes two
\* SUCCESS ledger entries, and moves the escrow to the terminal state RESOLVED.
C19_PartialRefundResolvesEscrow ==
  [][(\E d \in 1..MaxDisputes : resolveDispute_inTx(d, "PARTIAL_REFUND"))
       => LET T == escrows[1].tokenAmount
              b == escrows[1].buyer
              v == escrows[1].vendor
          IN /\ 2 * balance'[b] = 2 * balance[b] + T
             /\ 2 * balance'[v] = 2 * balance[v] + T
             /\ Len(ledger') = Len(ledger) + 2
             /\ \A k \in DOMAIN ledger' \ DOMAIN ledger : ledger'[k].status = "SUCCESS"
             /\ escrows'[1].status = "RESOLVED"]_vars

\* C20: a notification that throws never changes what a settlement operation
\* commits and is never reported as a failure of the operation. For
\* closeAuction: the step that creates the delivery confirmation and notifies
\* both parties never ends the close, and the step that commits the close
\* answers with success.
C20_NotificationFailureSwallowed ==
  [][\A p \in Procs :
       /\ (pc[p] = "ca_conf" => pc'[p] # "idle")
       /\ (pc[p] = "ca_commit" /\ ~loc[p].stale /\ pc'[p] = "idle"
             => outcome' = "ok")]_vars

\* C21: a retraction of an accepted bid of amount a that succeeds, with no
\* other request running, takes a off the bidder's escrowed balance and adds
\* a minus the penalty max(a / 10, MIN_PENALTY) to the available balance; a
\* retraction by another user or after the end time changes nothing.
C21_RetractDissolvesHold ==
  [][\A p \in Procs :
       /\ (pc[p] = "rb_refund" /\ pc'[p] # "rb_refund"
             /\ bids[loc[p].bid].status = "active" /\ Solo(p) =>
             LET u == loc[p].user
                 a == loc[p].amount
             IN /\ escrowedBalance'[u] = escrowedBalance[u] - a
                /\ balance'[u] = balance[u] + a - Max(a \div 10, MIN_PENALTY))
       /\ ((\E i \in DOMAIN bids, u \in Bidders :
               /\ retractBid_validate(p, i, u)
               /\ (bids[i].bidder # u \/ now > auction.endTime))
           => UNCHANGED db)]_vars

\* C22: after setWinningBid at most one bid of the auction is the winning
\* bid, and it is a bid of the largest amount among the bids that are active
\* and not retracted; a retracted or a pending bid is never made the winner.
C22_WinnerIsHighestActiveBid ==
  [][\A p \in Procs :
       pc[p] = "ca_win" /\ pc'[p] = "ca_esc" =>
         LET W == {i \in DOMAIN bids' : bids'[i].live /\ bids'[i].isWinningBid}
             A == {i \in DOMAIN bids' : /\ bids'[i].live
                                        /\ bids'[i].status = "active"
                                        /\ ~bids'[i].isRetracted}
         IN /\ Cardinality(W) <= 1
            /\ \A w \in W : /\ w \in A
                            /\ \A j \in A : bids'[j].amount <= bids'[w].amount]_vars

\* C23: createEscrow creates a HELD escrow only when the auction has a highest
\* bidder and a winningBidAmount and has no escrow yet; otherwise it fails and
\* creates nothing, so that the auction never has more than one escrow or more
\* than one ESCROW_HOLD entry.
C23_EscrowCreatedOnce ==
  [][\A p \in Procs :
       pc[p] = "ca_esc" /\ pc'[p] # "ca_esc" =>
         /\ IF \/ auction.highestBidder = NoUser
               \/ auction.winningBidAmount = 0
               \/ escrows # <<>>
              THEN pc'[p] = "idle" /\ UNCHANGED <<escrows, ledger>>
              ELSE Len(escrows') = 1 /\ escrows'[1].status = "HELD"
         /\ Len(escrows') <= 1
         /\ Cardinality({k \in DOMAIN ledger' : ledger'[k].type = "ESCROW_HOLD"}) <= 1]_vars

\* C24: a raiseDispute call creates a dispute only when the caller is the
\* highest bidder or the vendor of the auction and the escrow of the auction is
\* HELD; the step that creates the dispute creates it OPEN and moves that
\* escrow from HELD to DISPUTED, and a call that is rejected changes neither
\* the disputes nor the escrows.
C24_DisputeFreezesHeldEscrow ==
  [][\A u \in Users :
       raiseDispute(u) =>
         IF disputes' # disputes
           THEN /\ u = auction.highestBidder \/ u = Vendor
                /\ escrows[1].status = "HELD"
                /\ Len(disputes') = Len(disputes) + 1
                /\ disputes'[Len(disputes')].status = "OPEN"
                /\ disputes'[Len(disputes')].raisedBy = u
                /\ escrows'[disputes'[Len(disputes')].escrow].status = "DISPUTED"
           ELSE UNCHANGED escrows]_vars

\* C24: a dispute was raised: it is OPEN and its escrow is DISPUTED.
C24_Witness ==
  /\ disputes # <<>>
  /\ disputes[1].status = "OPEN"
  /\ escrows[disputes[1].escrow].status = "DISPUTED"
  /\ outcome = "ok"

\* C25: in every reachable state, however the raiseDispute calls of the buyer
\* and the vendor interleave, every escrow has at most one dispute whose
\* status is not RESOLVED.
C25_OneOpenDisputePerEscrow ==
  \A e \in DOMAIN escrows :
     Cardinality({d \in DOMAIN disputes : /\ disputes[d].escrow = e
                                          /\ disputes[d].status # "RESOLVED"}) <= 1

\* C25: of two raiseDispute calls that ran at the same time one created the
\* dispute and the other failed.
C25_Witness ==
  /\ outcome = "Failed to raise dispute"
  /\ Len(disputes) = 1
  /\ disputes[1].status = "OPEN"
  /\ escrows[1].status = "DISPUTED"

\* The place of a dispute status in OPEN -> UNDER_REVIEW -> RESOLVED
StatusRank(st) == IF st = "OPEN" THEN 0 ELSE IF st = "UNDER_REVIEW" THEN 1 ELSE 2

\* C26: the status of a dispute only moves forward along OPEN ->
\* UNDER_REVIEW -> RESOLVED, and once a dispute is RESOLVED no step changes
\* its status or adds evidence to it.
C26_DisputeStatusForward ==
  [][\A d \in DOMAIN disputes :
       /\ StatusRank(disputes'[d].status) >= StatusRank(disputes[d].status)
       /\ disputes[d].status = "RESOLVED" =>
            /\ disputes'[d].status = "RESOLVED"
            /\ disputes'[d].evidence = disputes[d].evidence]_vars

\* C27: once resolveDispute has set the decision of a dispute, no later step
\* changes the decision, and a later resolveDispute on that dispute credits no
\* account and writes no ledger entry.
C27_ResolutionImmutable ==
  [][\A d \in DOMAIN disputes :
       disputes[d].decision # "none" =>
         /\ disputes'[d].decision = disputes[d].decision
         /\ (\/ \E decision \in {"PARTIAL_REFUND", "OTHER"} :
                  resolveDispute_inTx(d, decision)
             \/ \E p \in Procs : pc[p] = "rd_apply" /\ loc[p].bid = d
                                 /\ resolveDispute_apply(p))
            => UNCHANGED <<balance, ledger>>]_vars

\* C28: the admin's resolveDispute on a delivery confirmation, with a HELD
\* escrow of tokenAmount T: RELEASE_TO_VENDOR leaves the confirmation
\* DELIVERED and the escrow RELEASED with the vendor paid T minus the fee;
\* REFUND_BUYER leaves the confirmation CANCELLED and the escrow REFUNDED with
\* the buyer credited T.
C28_DeliveryResolution ==
  [][\A c \in DOMAIN confs :
       Held # {} =>
         LET e == FirstOf(Held)
             T == escrows[e].tokenAmount
         IN /\ resolveDelivery(c, "RELEASE_TO_VENDOR") =>
                 /\ confs'[c].status = "DELIVERED"
                 /\ escrows'[e].status = "RELEASED"
                 /\ balance'[escrows[e].vendor] =
                      balance[escrows[e].vendor] + T - T \div FEE_DIVISOR
            /\ resolveDelivery(c, "REFUND_BUYER") =>
                 /\ confs'[c].status = "CANCELLED"
                 /\ escrows'[e].status = "REFUNDED"
                 /\ balance'[escrows[e].buyer] = balance[escrows[e].buyer] + T]_vars

\* C29: markShipped changes a delivery confirmation only for its vendor and
\* only from PENDING_SHIPMENT to SHIPPED; confirmDelivery changes one only for
\* its buyer and only from SHIPPED or PENDING_DELIVERY to DELIVERED; and no
\* step changes the status of a confirmation that is DELIVERED.
C29_DeliveryStatusMoves ==
  [][\A c \in DOMAIN confs :
       /\ confs[c].status = "DELIVERED" => confs'[c].status = "DELIVERED"
       /\ \A u \in Users :
            /\ markShipped(u) /\ confs'[c] # confs[c] =>
                 /\ u = confs[c].vendor
                 /\ confs[c].status = "PENDING_SHIPMENT"
                 /\ confs'[c].status = "SHIPPED"
            /\ confirmDelivery(u) /\ confs'[c] # confs[c] =>
                 /\ u = confs[c].buyer
                 /\ confs[c].status \in {"SHIPPED", "PENDING_DELIVERY"}
                 /\ confs'[c].status = "DELIVERED"]_vars

\* C29: a physical item was shipped and confirmed, and a later openDispute of
\* the buyer on the DELIVERED confirmation was turned down.
C29_Witness ==
  /\ ~auction.isDigital
  /\ confs # <<>>
  /\ confs[1].status = "DELIVERED"
  /\ confs[1].deliveredAt >= 0
  /\ outcome = "Cannot dispute this delivery"

\* C30: openDispute changes a delivery confirmation only for its buyer and
\* only when it is not DELIVERED, and makes it DISPUTED; a confirmation
\* becomes DISPUTED only from PENDING_SHIPMENT, PENDING_DELIVERY or SHIPPED,
\* never from CANCELLED or DELIVERED.
C30_DisputedOnlyBeforeDelivered ==
  [][\A c \in DOMAIN confs :
       /\ confs'[c].status = "DISPUTED" /\ confs[c].status # "DISPUTED" =>
            confs[c].status \in {"PENDING_SHIPMENT", "PENDING_DELIVERY", "SHIPPED"}
       /\ \A u \in Users :
            openDispute(u) /\ confs'[c] # confs[c] =>
              /\ u = confs[c].buyer
              /\ confs[c].status # "DELIVERED"
              /\ confs'[c].status = "DISPUTED"]_vars

\* C30: the buyer disputed the delivery of a physical item that was not yet
\* confirmed as delivered.
C30_Witness ==
  /\ confs # <<>>
  /\ confs[1].status = "DISPUTED"
  /\ confs[1].deliveredAt < 0
  /\ ~auction.isDigital
  /\ outcome = "ok"
  /\ \A p \in Procs : pc[p] = "idle"

\* C31: every step of a settlement operation that changes the balance or the
\* escrowed balance of an account writes a ledger entry with it, so that the
\* ledger reconciles with the accounts.
C31_MoneyMovementHasLedgerEntry ==
  [][(balance' # balance \/ escrowedBalance' # escrowedBalance)
       => /\ Len(ledger') > Len(ledger)
          /\ \E k \in DOMAIN ledger' :
               /\ k > Len(ledger)
               /\ ledger'[k].status = "SUCCESS"
               /\ \/ balance'[ledger'[k].user] # balance[ledger'[k].user]
                  \/ escrowedBalance'[ledger'[k].user] # escrowedBalance[ledger'[k].user]]_vars

\* C32: a bid that is finalized with less than ANTI_SNIPING_EXTENSION seconds
\* left before the end time moves the end time to the time of the
\* finalization plus ANTI_SNIPING_EXTENSION; with that much time or more left
\* the end time stays; and the accepted bid gives the auction exactly that
\* end time, on every bid.
C32_AntiSnipingExtension ==
  [][\A p \in Procs :
       /\ pc[p] = "pb_finR" /\ pc'[p] = "pb_finW" =>
            loc'[p].newEnd = IF auction.endTime - now < ANTI_SNIPING_EXTENSION
                               THEN now + ANTI_SNIPING_EXTENSION
                               ELSE auction.endTime
       /\ pc[p] = "pb_finW" /\ pc'[p] = "idle" /\ auction' # auction =>
            auction'.endTime = loc[p].newEnd]_vars

\* C32: a bid was accepted at the end time and moved it on by
\* ANTI_SNIPING_EXTENSION from the time of the acceptance.
C32_Witness ==
  /\ auction.bidCount = 1
  /\ now = InitEndTime
  /\ auction.endTime = now + ANTI_SNIPING_EXTENSION
  /\ \A p \in Procs : pc[p] = "idle"

\* C33: setWinningBid is idempotent: when the bids already carry the marks a
\* call of setWinningBid on them leaves (one bid of the largest amount is the
\* winning bid and no other), a further call leaves every bid as it is.
C33_SetWinningBidIdempotent ==
  [][\A p \in Procs :
       (/\ pc[p] = "ca_win" /\ pc'[p] = "ca_esc"
        /\ \E w \in Highest(LiveBids) :
             \A i \in LiveBids : bids[i].isWinningBid <=> (i = w))
       => bids' = bids]_vars

\* The tokens of the accounts in U, available and escrowed
RECURSIVE SumAccounts(_)
SumAccounts(U) ==
  IF U = {} THEN 0
  ELSE LET u == CHOOSE x \in U : TRUE
       IN balance[u] + escrowedBalance[u] + SumAccounts(U \ {u})

\* The retraction penalties kept on the bids in S
RECURSIVE SumPenalties(_)
SumPenalties(S) ==
  IF S = {} THEN 0
  ELSE LET i == CHOOSE j \in S : TRUE
       IN bids[i].retractionPenalty + SumPenalties(S \ {i})

RECURSIVE SumInit(_)
SumInit(U) ==
  IF U = {} THEN 0
  ELSE LET u == CHOOSE x \in U : TRUE IN InitBalance[u] + SumInit(U \ {u})

\* C34: tokens are conserved: whenever no request is running, the balances and
\* escrowed balances of all accounts, plus the platform fees and the
\* retraction penalties collected, add up to the tokens there were at the
\* start.
C34_TokensConserved ==
  (\A p \in Procs : pc[p] = "idle") =>
    SumAccounts(Users) + SumPenalties(DOMAIN bids)
      + SumAmounts(Entries("PLATFORM_FEE", "SUCCESS")) = SumInit(Users)

\* C35: the vendor is paid the proceeds of the auction at most once over all
\* payout paths together: the balance of the vendor, which starts at 0, never
\* exceeds the highest accepted bid less the 10% fee.
C35_VendorPaidAtMostOnce ==
  balance[Vendor] <= auction.currentPrice - auction.currentPrice \div FEE_DIVISOR

\* C36: a bid is refunded by retraction at most once: a retractBid on a bid
\* that is already retracted does not pass on to the step that credits the
\* bidder.
C36_RetractedOnce ==
  [][\A p \in Procs :
       pc[p] = "idle" /\ pc'[p] = "rb_refund" => ~bids[loc'[p].bid].isRetracted]_vars

\* C37: once the auction is closed, no step of a placeBid or a retractBid
\* changes its currentPrice, highestBidder or winningBidAmount, and none
\* changes the winning bid or credits its bidder a retraction refund.
C37_ClosedAuctionFrozen ==
  [][\A p \in Procs :
       (/\ ~auction.isActive
        /\ pc'[p] # pc[p]
        /\ pc[p] \in {"pb_finW", "rb_refund", "rb_find"} \/ pc'[p] = "rb_refund")
       => /\ auction'.currentPrice = auction.currentPrice
          /\ auction'.highestBidder = auction.highestBidder
          /\ auction'.winningBidAmount = auction.winningBidAmount
          /\ \A i \in DOMAIN bids : bids[i].isWinningBid => bids'[i] = bids[i]
          /\ (pc[p] = "rb_refund" /\ bids[loc[p].bid].isWinningBid)
               => balance' = balance]_vars

\* C38: while the auction is active and no request is running, currentPrice is
\* the largest amount among the active bids that are not retracted and
\* highestBidder is the bidder of such a bid; without such a bid they are the
\* startingPrice and no user.
C38_PriceIsHighestActiveBid ==
  (auction.isActive /\ \A p \in Procs : pc[p] = "idle") =>
    LET A == {i \in LiveBids : bids[i].status = "active" /\ ~bids[i].isRetracted}
    IN IF A = {}
         THEN /\ auction.currentPrice = auction.startingPrice
              /\ auction.highestBidder = NoUser
         ELSE \E i \in Highest(A) : /\ auction.currentPrice = bids[i].amount
                                    /\ auction.highestBidder = bids[i].bidder

\* C39: whenever a dispute is RESOLVED, the escrow it refers to is RELEASED,
\* REFUNDED or RESOLVED, whatever the decision was: a dispute is never RESOLVED
\* while its escrow is HELD or DISPUTED.
C39_ResolvedDisputeSettledEscrow ==
  \A d \in DOMAIN disputes :
     disputes[d].status = "RESOLVED" => escrows[disputes[d].escrow].status \in Terminal

\* C40: in every reachable state a delivery confirmation that is DELIVERED
\* goes with an escrow of the auction that is RELEASED, and one that is
\* CANCELLED with an escrow that is REFUNDED.
C40_DeliveryMatchesEscrow ==
  \A c \in DOMAIN confs :
     /\ confs[c].status = "DELIVERED" => EscrowsIn("RELEASED") # {}
     /\ confs[c].status = "CANCELLED" => EscrowsIn("REFUNDED") # {}

====
